---- MODULE Spec2Model ----
(***************************************************************************)
(* Model of the route-file loader (src/index.js): the default export       *)
(* resolves a directory, lists it recursively, filters the entries by      *)
(* extension and ignore pattern, imports every remaining file, rewrites    *)
(* the exported descriptor's path and registers it on a fresh router.      *)
(*                                                                         *)
(* Strings are sequences of one-character strings, so that path.join,      *)
(* replaceAll, startsWith, extname and RegExp.prototype.test are computed  *)
(* character by character, as the runtime computes them.                   *)
(***************************************************************************)
EXTENDS Integers, Sequences, FiniteSets, TLC

VARIABLES platform, cwd, disk, regex, cache, inv

vars == <<platform, cwd, disk, regex, cache, inv>>

(***************************************************************************)
(* Characters and generic string helpers                                   *)
(***************************************************************************)
SLASH == "/"
BSLASH == "\\"
DOT == "."

\* node:path separators: posix knows "/", win32 knows "/" and "\".
IsSep(plat, c) == IF plat = "win32" THEN c \in {SLASH, BSLASH} ELSE c = SLASH

Sep(plat) == IF plat = "win32" THEN BSLASH ELSE SLASH

\* String.prototype.slice(from) with a 0-based index.
Drop(s, n) == IF n >= Len(s) THEN <<>> ELSE SubSeq(s, n + 1, Len(s))

Take(s, n) == IF n <= 0 THEN <<>> ELSE SubSeq(s, 1, IF n > Len(s) THEN Len(s) ELSE n)

StartsWith(s, c) == Len(s) > 0 /\ s[1] = c

\* String.prototype.replaceAll for single characters.
ReplaceAll(s, from, to) == [i \in 1..Len(s) |-> IF s[i] = from THEN to ELSE s[i]]

MinOf(S) == CHOOSE x \in S : \A y \in S : x <= y

MaxOf(S) == CHOOSE x \in S : \A y \in S : x >= y

\* MinOf(S), or d for the empty set.
MinOr(S, d) == IF S = {} THEN d ELSE MinOf(S)

MaxOr(S, d) == IF S = {} THEN d ELSE MaxOf(S)

\* The elements of a set of numbers in increasing order.
Sorted(S) == [j \in 1..Cardinality(S) |-> CHOOSE x \in S : Cardinality({y \in S : y < x}) = j - 1]

\* The pieces of s between the cut positions.
Pieces(s, cuts) == [j \in 1..(Len(cuts) - 1) |-> SubSeq(s, cuts[j] + 1, cuts[j + 1] - 1)]

\* The segments of s between separators (empty segments kept).
Split(plat, s) ==
    Pieces(s, <<0>> \o Sorted({i \in 1..Len(s) : IsSep(plat, s[i])}) \o <<Len(s) + 1>>)

JoinSegs(segs, sep) ==
    LET f[i \in 0..Len(segs)] ==
            IF i = 0 THEN <<>>
            ELSE (IF i = 1 THEN <<>> ELSE f[i - 1] \o <<sep>>) \o segs[i]
    IN  f[Len(segs)]

DOTDOT == <<DOT, DOT>>

\* One segment of node:path normalizeString: "." and empty segments are
\* dropped, ".." removes the segment before it, and is kept above the start
\* only when allowAboveRoot.
NormStep(acc, g, allowAboveRoot) ==
    IF g = <<>> \/ g = <<DOT>> THEN acc
    ELSE IF g # DOTDOT THEN Append(acc, g)
    ELSE IF acc # <<>> /\ acc[Len(acc)] # DOTDOT THEN SubSeq(acc, 1, Len(acc) - 1)
    ELSE IF allowAboveRoot THEN Append(acc, g)
    ELSE acc

NormSegs(segs, allowAboveRoot) ==
    LET f[i \in 0..Len(segs)] ==
            IF i = 0 THEN <<>> ELSE NormStep(f[i - 1], segs[i], allowAboveRoot)
    IN  f[Len(segs)]

NormalizeString(plat, s, allowAboveRoot) ==
    JoinSegs(NormSegs(Split(plat, s), allowAboveRoot), Sep(plat))

(***************************************************************************)
(* node:path, as used by the loader (isAbsolute, join, dirname, relative,  *)
(* extname).  win32 paths are modelled without drive letters.              *)
(***************************************************************************)
\* Smallest index k >= j holding a separator (or not), Len(s) + 1 when none.
SkipToSep(plat, s, j) == MinOr({k \in j..Len(s) : IsSep(plat, s[k])}, Len(s) + 1)

SkipSeps(plat, s, j) == MinOr({k \in j..Len(s) : ~IsSep(plat, s[k])}, Len(s) + 1)

IsAbsolute(plat, p) == Len(p) > 0 /\ IsSep(plat, p[1])

\* posix.normalize, given the normalized segments of the path.
PosixAssemble(p, isAbs, trailing, body) ==
    IF Len(body) = 0
    THEN IF isAbs THEN <<SLASH>>
         ELSE IF trailing THEN <<DOT, SLASH>> ELSE <<DOT>>
    ELSE (IF isAbs THEN <<SLASH>> ELSE <<>>) \o body
         \o (IF trailing THEN <<SLASH>> ELSE <<>>)

PosixNormalize(p) ==
    IF Len(p) = 0 THEN <<DOT>>
    ELSE PosixAssemble(p, p[1] = SLASH, p[Len(p)] = SLASH,
                       NormalizeString("posix", p, p[1] # SLASH))

\* The UNC root of a win32 path that starts with two separators, from the
\* end of the server name j1, the start of the share name j2 and its end j3
\* (1-based, j3 exclusive): <<server, j2, j3>>, or <<>> when there is none.
UncRoot(p, j1, j2, j3) ==
    IF j1 <= Len(p) /\ j1 # 3 /\ j2 <= Len(p)
    THEN <<SubSeq(p, 3, j1 - 1), j2, j3>>
    ELSE <<>>

UncFrom2(p, j1, j2) == UncRoot(p, j1, j2, SkipToSep("win32", p, j2))

UncFrom1(p, j1) == UncFrom2(p, j1, SkipSeps("win32", p, j1))

Win32Unc(p) == UncFrom1(p, SkipToSep("win32", p, 3))

\* win32.normalize, given the UNC root and the normalized rest of the path.
Win32Assemble(p, isAbs, unc, tail) ==
    IF unc = <<>>
    THEN (IF isAbs THEN <<BSLASH>> ELSE <<>>)
         \o (IF Len(tail) = 0 /\ ~isAbs THEN <<DOT>> ELSE tail)
         \o (IF (Len(tail) > 0 \/ ~isAbs) /\ IsSep("win32", p[Len(p)])
             THEN <<BSLASH>> ELSE <<>>)
    ELSE <<BSLASH, BSLASH>> \o unc[1] \o <<BSLASH>> \o SubSeq(p, unc[2], unc[3] - 1)
         \o <<BSLASH>>
         \o (IF unc[3] = Len(p) + 1 THEN <<>> ELSE tail)
         \o (IF unc[3] <= Len(p) /\ Len(tail) > 0 /\ IsSep("win32", p[Len(p)])
             THEN <<BSLASH>> ELSE <<>>)

Win32NormalizeFrom(p, isAbs, unc, rootEnd) ==
    Win32Assemble(p, isAbs, unc,
                  IF rootEnd < Len(p)
                  THEN NormalizeString("win32", Drop(p, rootEnd), ~isAbs)
                  ELSE <<>>)

Win32NormalizeUnc(p, isAbs, unc) ==
    Win32NormalizeFrom(p, isAbs, unc,
                       IF unc # <<>> THEN unc[3] - 1
                       ELSE IF isAbs /\ ~IsSep("win32", p[2]) THEN 1 ELSE 0)

Win32Normalize(p) ==
    IF Len(p) = 0 THEN <<DOT>>
    ELSE IF Len(p) = 1 THEN (IF p[1] = SLASH THEN <<BSLASH>> ELSE p)
    ELSE Win32NormalizeUnc(p, IsSep("win32", p[1]),
                           IF IsSep("win32", p[1]) /\ IsSep("win32", p[2])
                           THEN Win32Unc(p) ELSE <<>>)

Normalize(plat, p) == IF plat = "win32" THEN Win32Normalize(p) ELSE PosixNormalize(p)

NonEmpty(args) == SelectSeq(args, LAMBDA a : Len(a) > 0)

\* win32.join keeps a leading double separator only when the first non-empty
\* argument starts with exactly two separators followed by another character;
\* otherwise the leading separators are replaced by one.
Win32JoinFix(first, joined, slashCount) ==
    IF \/ slashCount < 2
       \/ /\ Len(first) > 2
          /\ IsSep("win32", first[1]) /\ IsSep("win32", first[2])
          /\ ~IsSep("win32", first[3])
    THEN joined
    ELSE <<BSLASH>> \o Drop(joined, slashCount)

JoinParts(plat, parts, joined) ==
    IF parts = <<>> THEN <<DOT>>
    ELSE Normalize(plat, IF plat = "win32"
                         THEN Win32JoinFix(parts[1], joined, SkipSeps("win32", joined, 1) - 1)
                         ELSE joined)

PathJoinParts(plat, parts) == JoinParts(plat, parts, JoinSegs(parts, Sep(plat)))

PathJoin(plat, args) == PathJoinParts(plat, NonEmpty(args))

\* path.dirname, given the index of the last separator that is followed by a
\* name (0 when there is none).
DirnameAt(plat, p, lastSep) ==
    IF lastSep = 0 THEN (IF IsSep(plat, p[1]) THEN <<p[1]>> ELSE <<DOT>>)
    ELSE IF plat = "posix" /\ p[1] = SLASH /\ lastSep = 2 THEN <<SLASH, SLASH>>
    ELSE Take(p, lastSep - 1)

DirnameBefore(plat, p, lastName) ==
    DirnameAt(plat, p, MaxOr({k \in 2..lastName : IsSep(plat, p[k])}, 0))

Dirname(plat, p) ==
    IF Len(p) = 0 THEN <<DOT>>
    ELSE DirnameBefore(plat, p, MaxOr({k \in 2..Len(p) : ~IsSep(plat, p[k])}, 0))

\* path.resolve of an absolute path: its normalized segments.
ResolvedSegs(plat, p) == NormSegs(Split(plat, p), FALSE)

\* The length of the longest common prefix of two segment lists.
CommonLen(a, b) ==
    MaxOf({n \in 0..Len(a) : n <= Len(b) /\ SubSeq(a, 1, n) = SubSeq(b, 1, n)})

RelativeFrom(plat, f, t, n) ==
    JoinSegs([i \in 1..(Len(f) - n) |-> DOTDOT] \o Drop(t, n), Sep(plat))

RelativeSegs(plat, f, t) == RelativeFrom(plat, f, t, CommonLen(f, t))

\* path.relative between two absolute paths.
Relative(plat, from, to) ==
    IF from = to THEN <<>>
    ELSE RelativeSegs(plat, ResolvedSegs(plat, from), ResolvedSegs(plat, to))

ExtnameAt(name, lastDot) == IF lastDot <= 1 THEN <<>> ELSE Drop(name, lastDot - 1)

\* path.extname of a file name: from its last "." on, "" when there is none or
\* when the only "." is the first character.
Extname(name) == ExtnameAt(name, MaxOr({k \in 1..Len(name) : name[k] = DOT}, 0))

(***************************************************************************)
(* RegExp.prototype.test.  A pattern is a literal source, optionally       *)
(* anchored at the end of the input ("$"), with or without the g flag; its *)
(* lastIndex lives in the pattern object and survives the call.            *)
(***************************************************************************)
MatchesAt(re, s, i) ==
    /\ i + Len(re.src) <= Len(s)
    /\ SubSeq(s, i + 1, i + Len(re.src)) = re.src
    /\ (re.anchored => i + Len(re.src) = Len(s))

\* 0-based start positions of the matches of re in s at or after from.
MatchStarts(re, s, from) == {i \in from..Len(s) : MatchesAt(re, s, i)}

\* The search starts at lastIndex for a g pattern, at 0 otherwise.
TestStart(re) == IF re.global THEN re.lastIndex ELSE 0

\* test(s), given the matches from the start position on: whether it matched,
\* and the pattern object afterwards.  A g pattern remembers the end of the
\* match, and is reset to 0 by a failed search.
TestResult(re, starts) ==
    [hit |-> starts # {},
     re |-> IF ~re.global THEN re
            ELSE [re EXCEPT !.lastIndex = IF starts = {} THEN 0
                                          ELSE MinOf(starts) + Len(re.src)]]

Test(re, s) == TestResult(re, MatchStarts(re, s, TestStart(re)))

\* ignorePatterns.some((pattern) => pattern.test(file)): the patterns are
\* tried in order and the first match ends the search.
SomeApply(st, r, t) == [hit |-> t.hit, heap |-> [st.heap EXCEPT ![r] = t.re]]

SomeStep(st, r, file) == IF st.hit THEN st ELSE SomeApply(st, r, Test(st.heap[r], file))

SomeTest(pats, heap, file) ==
    LET f[i \in 0..Len(pats)] ==
            IF i = 0 THEN [hit |-> FALSE, heap |-> heap]
            ELSE SomeStep(f[i - 1], pats[i], file)
    IN  f[Len(pats)]

\* files.filter((file) => !ignorePatterns.some(...)): the kept files and the
\* pattern objects as the filter leaves them.
FilterApply(st, entry, t) ==
    [kept |-> IF t.hit THEN st.kept ELSE Append(st.kept, entry), heap |-> t.heap]

FilterStep(st, pats, entry) == FilterApply(st, entry, SomeTest(pats, st.heap, entry.file))

IgnoreFilter(files, pats, heap) ==
    LET f[i \in 0..Len(files)] ==
            IF i = 0 THEN [kept |-> <<>>, heap |-> heap]
            ELSE FilterStep(f[i - 1], pats, files[i])
    IN  f[Len(files)]

(***************************************************************************)
(* The file system: disk is the sequence of entries below the working      *)
(* directory, in readdir order.  An entry has the segments of its parent   *)
(* directory (relative to cwd), a name, its type, and for a file the       *)
(* module its source evaluates to.                                         *)
(***************************************************************************)
CwdSegs == ResolvedSegs(platform, cwd)

IsPrefixOf(a, b) == Len(a) <= Len(b) /\ SubSeq(b, 1, Len(a)) = a

\* Whether the resolved path a is the working directory, one of its parents,
\* or an entry of one of the given types.
Names(a, cwdSegs, types) ==
    \/ IsPrefixOf(a, cwdSegs)
    \/ \E k \in 1..Len(disk) :
          cwdSegs \o disk[k].dir \o <<disk[k].name>> = a /\ disk[k].isFile \in types

\* fs.access(absolute_path) succeeds on an existing directory or file.
Exists(abs) == Names(ResolvedSegs(platform, abs), CwdSegs, {TRUE, FALSE})

IsDirectory(abs) == Names(ResolvedSegs(platform, abs), CwdSegs, {FALSE})

\* Dirent.parentPath: the directory as passed for its own entries, the joined
\* path of the sub-directory for the entries below.
ParentPathOf(abs, rel) ==
    IF rel = <<>> THEN abs
    ELSE PathJoin(platform, <<abs, JoinSegs(rel, Sep(platform))>>)

\* fs.readdir(absolute_path, {withFileTypes, recursive}), given the resolved
\* segments of the directory: the entries at any depth below it, each with
\* its segments below the directory.
ReaddirBelow(a, cwdSegs) ==
    SelectSeq([k \in 1..Len(disk) |-> [k |-> k, rel |-> Drop(cwdSegs \o disk[k].dir, Len(a))]],
              LAMBDA d : IsPrefixOf(a, cwdSegs \o disk[d.k].dir))

Readdir(abs) == ReaddirBelow(ResolvedSegs(platform, abs), CwdSegs)

(***************************************************************************)
(* The loader, src/index.js                                                *)
(***************************************************************************)
\* line 55
AbsolutePath(dir) ==
    IF IsAbsolute(platform, dir) THEN dir ELSE PathJoin(platform, <<cwd, dir>>)

\* line 65: p.isFile() && fileExtensions.includes(path.extname(p.name))
ExtensionFilter(dirents, exts) ==
    SelectSeq(dirents, LAMBDA d : disk[d.k].isFile /\ Extname(disk[d.k].name) \in exts)

\* line 66: path.join(p.parentPath, p.name); k remembers the entry.
FilePaths(abs, dirents) ==
    [j \in 1..Len(dirents) |->
        [k |-> dirents[j].k,
         file |-> PathJoin(platform,
                           <<ParentPathOf(abs, dirents[j].rel), disk[dirents[j].k].name>>)]]

\* The check of line 75 testing the fields for presence only, as
\* pkg.path === undefined would: an empty path passes.
TruthyPresenceOnly(m, path) ==
    /\ m.hasDefault
    /\ "path" \in m.has
    /\ "methods" \in m.has
    /\ "handlers" \in m.has

\* line 75: !pkg || !pkg.path || !pkg.methods || !pkg.handlers.  An empty
\* string is falsy, an empty array is truthy.
Truthy(m, path) ==
    /\ m.hasDefault
    /\ "path" \in m.has /\ path # <<>>
    /\ "methods" \in m.has
    /\ "handlers" \in m.has

\* line 82
LeadingSlash(p) == IF StartsWith(p, SLASH) THEN p ELSE <<SLASH>> \o p

\* lines 80-82
RewritePath(prefix, abs, file, declared) ==
    LeadingSlash(ReplaceAll(
        PathJoin(platform,
                 <<prefix, Relative(platform, abs, Dirname(platform, file)), declared>>),
        BSLASH, SLASH))

\* line 83: router.register(pkg.path, pkg.methods, ...pkg.handlers).  The
\* spread passes the first handler as the middleware; the router's Layer
\* rejects a middleware that is not a function, which is what an empty
\* handler list passes (undefined).
RegisterThrows(m) == m.handlers = <<>>

Layer(path, m, k) ==
    [path |-> path, methods |-> m.methods, middleware |-> Head(m.handlers), src |-> k]

NoError == [kind |-> "none", path |-> <<>>]

\* The state of one invocation of the default export: its arguments, the
\* point it is suspended at, and its locals.
Invocation(dir, prefix, exts, pats) ==
    [dir |-> dir, prefix |-> prefix, exts |-> exts, pats |-> pats,
     pc |-> "start", abs |-> <<>>, found |-> <<>>, files |-> <<>>, i |-> 0,
     created |-> FALSE, stack |-> <<>>, imported |-> <<>>, warnings |-> <<>>,
     error |-> NoError]

\* Lines 55-62 without the fs.access check: the invocation goes on to
\* readdir whether or not the directory exists.
ResolvedUnchecked(c, abs) ==
    inv' = [inv EXCEPT ![c] = [@ EXCEPT !.pc = "accessed", !.abs = abs]]

\* lines 55-62: resolve the directory and await fs.access; a failure is
\* rethrown as an Error whose message carries absolute_path.
Resolved(c, abs) ==
    inv' = [inv EXCEPT ![c] =
        IF Exists(abs)
        THEN [@ EXCEPT !.pc = "accessed", !.abs = abs]
        ELSE [@ EXCEPT !.pc = "rejected", !.abs = abs,
                       !.error = [kind |-> "DirectoryNotFound", path |-> abs]]]

Access(c) ==
    /\ inv[c].pc = "start"
    /\ Resolved(c, AbsolutePath(inv[c].dir))
    /\ UNCHANGED <<platform, cwd, disk, regex, cache>>

\* lines 64-70: await fs.readdir (which rejects on a path that is no
\* directory), then, without suspending, the extension filter, the joined
\* file paths, the ignore filter and the new router.  An empty file list runs
\* through the loop to the return at line 90.
Discovered(c, found, r) ==
    /\ inv' = [inv EXCEPT ![c].found = found, ![c].files = r.kept,
                          ![c].created = TRUE, ![c].i = 1,
                          ![c].pc = IF r.kept = <<>> THEN "done" ELSE "loading"]
    /\ regex' = r.heap

Filtered(c, found) == Discovered(c, found, IgnoreFilter(found, inv[c].pats, regex))

Discover(c) ==
    /\ inv[c].pc = "accessed"
    /\ IF ~IsDirectory(inv[c].abs)
       THEN /\ inv' = [inv EXCEPT ![c].pc = "rejected",
                                  ![c].error = [kind |-> "ENOTDIR", path |-> inv[c].abs]]
            /\ regex' = regex
       ELSE Filtered(c, FilePaths(inv[c].abs,
                                  ExtensionFilter(Readdir(inv[c].abs), inv[c].exts)))
    /\ UNCHANGED <<platform, cwd, disk, cache>>

\* The module cache entry of a file after import(file): the module is
\* evaluated on its first import, and every import of the file yields the
\* same exported object (or the same failure).
Imported(k) ==
    IF cache[k].state # "none" THEN cache[k]
    ELSE IF disk[k].mod.load = "ok" THEN [state |-> "ok", path |-> disk[k].mod.path]
    ELSE [state |-> "failed", path |-> <<>>]

\* Lines 74-87 with the check of line 75 inverted: a complete descriptor
\* is the one warned about and skipped.
OutcomeInverted(m, path) ==
    IF m.load = "throwsNullish" THEN "abort"
    ELSE IF m.load = "throwsError" THEN "failed"
    ELSE IF Truthy(m, path) THEN "invalid"
    ELSE IF RegisterThrows(m) THEN "failed"
    ELSE "registered"

\* The outcome of lines 74-87 for a file with module m whose exported object
\* holds the given path:
\*   "abort"    the catch block itself throws (error.message of a thrown
\*              null or undefined), so the exception leaves the loop;
\*   "failed"   an exception was caught and warned about;
\*   "invalid"  the descriptor failed the check of line 75;
\*   "registered".
Outcome(m, path) ==
    IF m.load = "throwsNullish" THEN "abort"
    ELSE IF m.load = "throwsError" THEN "failed"
    ELSE IF ~Truthy(m, path) THEN "invalid"
    ELSE IF RegisterThrows(m) THEN "failed"
    ELSE "registered"

\* The effect of one pass of the loop.  pkg.path is assigned on the imported
\* object itself (lines 80-82), before register is called.
Loaded(c, f, m, pkg, out, rewritten) ==
    /\ cache' = [cache EXCEPT ![f.k] =
           IF out = "registered" \/ (out = "failed" /\ m.load = "ok")
           THEN [pkg EXCEPT !.path = rewritten]
           ELSE pkg]
    /\ inv' = [inv EXCEPT
           ![c].imported = Append(@, f.k),
           ![c].i = IF out = "abort" THEN @ ELSE @ + 1,
           ![c].stack = IF out = "registered"
                        THEN Append(@, Layer(rewritten, m, f.k)) ELSE @,
           ![c].warnings = IF out \in {"failed", "invalid"}
                           THEN Append(@, [kind |-> out, k |-> f.k]) ELSE @,
           ![c].error = IF out = "abort"
                        THEN [kind |-> "TypeError", path |-> f.file] ELSE @,
           ![c].pc = IF out = "abort" THEN "rejected"
                     ELSE IF inv[c].i = Len(inv[c].files) THEN "done" ELSE "loading"]

LoadPkg(c, f, m, pkg) ==
    Loaded(c, f, m, pkg, Outcome(m, pkg.path),
           RewritePath(inv[c].prefix, inv[c].abs, f.file, pkg.path))

\* lines 72-90, one pass of the loop: the continuation of await import(file)
\* up to the next await import, or to the return after the last file.
LoadFile(c) ==
    /\ inv[c].pc = "loading"
    /\ LoadPkg(c, inv[c].files[inv[c].i], disk[inv[c].files[inv[c].i].k].mod,
               Imported(inv[c].files[inv[c].i].k))
    /\ UNCHANGED <<platform, cwd, disk, regex>>

AccessStep == \E c \in DOMAIN inv : Access(c)

DiscoverStep == \E c \in DOMAIN inv : Discover(c)

LoadStep == \E c \in DOMAIN inv : LoadFile(c)

Next == AccessStep \/ DiscoverStep \/ LoadStep

(***************************************************************************)
(* Inputs: the strings, modules, directory trees and options the           *)
(* specifications draw from.                                               *)
(***************************************************************************)
MaxFiles == 2

ExtJs == <<".", "j", "s">>
ExtTs == <<".", "t", "s">>
Api == <<"/", "a", "p", "i">>
Login == <<"/", "x">>

Fields == {"path", "methods", "handlers"}

Module(load, hasDefault, has, path, methods, handlers) ==
    [load |-> load, hasDefault |-> hasDefault, has |-> has,
     path |-> path, methods |-> methods, handlers |-> handlers]

\* export default {path, methods, handlers} with one handler.
ValidModule(path) == Module("ok", TRUE, Fields, path, <<"get">>, <<"h">>)

NoModule == Module("none", FALSE, {}, <<>>, <<>>, <<>>)

\* What a route file may evaluate to: a valid descriptor (one handler, or a
\* middleware and a handler), no default export, a descriptor with a field
\* absent or empty, or a module whose evaluation throws an Error or a
\* null/undefined value.
Behaviours ==
    {ValidModule(Login),
     Module("ok", TRUE, Fields, Login, <<"get", "post">>, <<"m", "h">>),
     Module("ok", FALSE, {}, <<>>, <<>>, <<>>),
     Module("ok", TRUE, Fields \ {"path"}, <<>>, <<"get">>, <<"h">>),
     Module("ok", TRUE, Fields, <<>>, <<"get">>, <<"h">>),
     Module("ok", TRUE, Fields \ {"methods"}, Login, <<>>, <<"h">>),
     Module("ok", TRUE, Fields, Login, <<>>, <<"h">>),
     Module("ok", TRUE, Fields \ {"handlers"}, Login, <<"get">>, <<>>),
     Module("ok", TRUE, Fields, Login, <<"get">>, <<>>),
     Module("throwsError", FALSE, {}, <<>>, <<>>, <<>>),
     Module("throwsNullish", FALSE, {}, <<>>, <<>>, <<>>)}

Slot(dir, name, isFile) == [dir |-> dir, name |-> name, isFile |-> isFile]

\* The tree below cwd, in readdir order: the routes directory r with route
\* files, a directory whose name ends in .js, a file of another type, and a
\* sub-directory v with a route file.
Pool ==
    << Slot(<<>>, <<"r">>, FALSE),
       Slot(<< <<"r">> >>, <<"a">> \o ExtJs, TRUE),
       Slot(<< <<"r">> >>, <<"b">> \o ExtTs, TRUE),
       Slot(<< <<"r">> >>, <<"d">> \o ExtJs, TRUE),
       Slot(<< <<"r">> >>, <<"k">> \o ExtJs, FALSE),
       Slot(<< <<"r">> >>, <<"n", ".", "m", "d">>, TRUE),
       Slot(<< <<"r">> >>, <<"v">>, FALSE),
       Slot(<< <<"r">>, <<"v">> >>, <<"c">> \o ExtJs, TRUE) >>

FileSlots == {j \in 1..Len(Pool) : Pool[j].isFile}

\* The disk holding the directories of the pool and the files chosen in T,
\* each with the module mods gives it.
DiskOf(T, mods) ==
    LET idx == SelectSeq([j \in 1..Len(Pool) |-> j],
                         LAMBDA j : ~Pool[j].isFile \/ j \in T)
    IN  [n \in 1..Len(idx) |->
            [dir |-> Pool[idx[n]].dir, name |-> Pool[idx[n]].name,
             isFile |-> Pool[idx[n]].isFile,
             mod |-> IF idx[n] \in T THEN mods[idx[n]] ELSE NoModule]]

\* Files that pass no extension filter are never imported: one module will do.
SlotBehaviours(j, behaviours) ==
    IF Extname(Pool[j].name) \in {ExtJs, ExtTs} THEN behaviours ELSE {ValidModule(Login)}

Disks(behaviours) ==
    UNION {{DiskOf(T, mods) :
               mods \in {f \in [T -> behaviours] :
                            \A j \in T : f[j] \in SlotBehaviours(j, behaviours)}} :
           T \in {U \in SUBSET FileSlots : Cardinality(U) <= MaxFiles}}

\* A path of the tree written with the platform's separator, from segments.
RelPath(plat, segs) == JoinSegs(segs, Sep(plat))

Cwd(plat) == <<Sep(plat), "w">>

EmptyCache == [k \in 1..Len(disk) |-> [state |-> "none", path |-> <<>>]]

Pattern(src, anchored, global) ==
    [src |-> src, anchored |-> anchored, global |-> global, lastIndex |-> 0]

\* The pattern objects a caller holds: /\.js$/, /\.js$/g and /v/g.
Patterns ==
    << Pattern(ExtJs, TRUE, FALSE), Pattern(ExtJs, TRUE, TRUE), Pattern(<<"v">>, FALSE, TRUE) >>

(***************************************************************************)
(* Spec: one invocation over every tree of at most MaxFiles files, every   *)
(* module behaviour, and the directory arguments "r", "x" (missing) and    *)
(* "r/a.js" (a file, when it exists).                                      *)
(***************************************************************************)
LoadDirs ==
    {<<"r">>, <<"x">>, <<"r", "/", "a">> \o ExtJs}

LoadOptions ==
    {Invocation(d, Api, e, ps) :
        d \in LoadDirs,
        e \in {{ExtJs, ExtTs}, {ExtJs}},
        ps \in {<<>>, <<1>>, <<3, 2>>}}

Init ==
    /\ platform = "posix"
    /\ cwd = Cwd(platform)
    /\ disk \in Disks(Behaviours)
    /\ regex = Patterns
    /\ cache = EmptyCache
    /\ inv \in [{1} -> LoadOptions]

Spec == Init /\ [][Next]_vars

(***************************************************************************)
(* SpecShared: two invocations in one process, over every tree of at most  *)
(* MaxFiles valid route files.  They share the module cache and the        *)
(* pattern objects the caller passes, and interleave at their awaits.      *)
(***************************************************************************)
SharedOptions ==
    {Invocation(d, p, e, ps) :
        d \in {<<"r">>, <<>>},
        p \in {<<>>, Api},
        e \in {{ExtJs, ExtTs}, {ExtJs}},
        ps \in {<<>>, <<2>>}}

InitShared ==
    /\ platform = "posix"
    /\ cwd = Cwd(platform)
    /\ disk \in Disks({ValidModule(Login)})
    /\ regex = Patterns
    /\ cache = EmptyCache
    /\ inv \in [{1, 2} -> SharedOptions]

SpecShared == InitShared /\ [][Next]_vars

(***************************************************************************)
(* SpecPaths: one invocation on either platform over a tree with a single  *)
(* valid route file, in the root or in the sub-directory, for every        *)
(* declared path of at most MaxPathLen characters and for the prefix       *)
(* "/api" and every prefix of at most MaxPrefixLen characters.             *)
(***************************************************************************)
MaxPathLen == 3

MaxPrefixLen == 2

PathChars == {SLASH, BSLASH, DOT, "x"}

Strings(chars, n) == UNION {[1..m -> chars] : m \in 0..n}

\* The slots of a.js (in the root) and c.js (in the sub-directory).
PathSlots == {j \in FileSlots : Pool[j].name \in {<<"a">> \o ExtJs, <<"c">> \o ExtJs}}

InitPaths ==
    /\ platform \in {"posix", "win32"}
    /\ cwd = Cwd(platform)
    /\ disk \in {DiskOf({j}, [n \in {j} |-> ValidModule(p)]) :
                    j \in PathSlots, p \in Strings(PathChars, MaxPathLen)}
    /\ regex = Patterns
    /\ cache = EmptyCache
    /\ inv \in [{1} -> {Invocation(<<"r">>, p, {ExtJs, ExtTs}, <<>>) :
                           p \in {Api} \cup Strings(PathChars, MaxPrefixLen)}]

SpecPaths == InitPaths /\ [][Next]_vars

(***************************************************************************)
(* Vocabulary of the properties                                            *)
(***************************************************************************)
Invs == DOMAIN inv

\* The disk entries of a list of files, in order.
EntriesOf(files) == [j \in 1..Len(files) |-> files[j].k]

SourcesOf(stack) == [j \in 1..Len(stack) |-> stack[j].src]

InSeq(x, seq) == \E j \in 1..Len(seq) : seq[j] = x

Registered(c, k) == InSeq(k, SourcesOf(inv[c].stack))

Warned(c, k) == \E j \in 1..Len(inv[c].warnings) : inv[c].warnings[j].k = k

\* A module that evaluates to a default export with a non-empty path, at
\* least one method and at least one handler.
ValidDescriptor(m) ==
    /\ m.load = "ok" /\ m.hasDefault /\ m.has = Fields
    /\ m.path # <<>> /\ m.methods # <<>> /\ m.handlers # <<>>

\* The invocation stopped by an exception thrown while a file was processed.
AbortedAt(c, k) ==
    /\ inv[c].pc = "rejected" /\ inv[c].created
    /\ inv[c].files[inv[c].i].k = k

C4_MissingDirectoryRejects ==
    \A c \in Invs :
        (inv[c].pc # "start" /\ ~Exists(AbsolutePath(inv[c].dir)))
        => /\ inv[c].pc = "rejected"
           /\ inv[c].error = [kind |-> "DirectoryNotFound",
                              path |-> AbsolutePath(inv[c].dir)]
           /\ IsAbsolute(platform, inv[c].error.path)
           /\ ~inv[c].created
           /\ inv[c].found = <<>> /\ inv[c].files = <<>>
           /\ inv[c].imported = <<>> /\ inv[c].stack = <<>>

C4_Witness ==
    \E c \in Invs :
        /\ inv[c].pc = "rejected"
        /\ inv[c].error.kind = "DirectoryNotFound"
        /\ ~Exists(AbsolutePath(inv[c].dir))

\* Whether the pattern matches the file path anywhere, whatever its lastIndex.
Matches(re, file) == MatchStarts(re, file, 0) # {}

MatchesSome(c, file) == \E j \in 1..Len(inv[c].pats) : Matches(regex[inv[c].pats[j]], file)

\* C3: a file whose full path matches one of ignorePatterns is never
\* imported and nothing is registered from it, however many files were
\* tested against the pattern before it.
C3_MatchingFilesIgnored ==
    \A c \in Invs : \A j \in 1..Len(inv[c].found) :
        MatchesSome(c, inv[c].found[j].file)
        => /\ ~InSeq(inv[c].found[j].k, EntriesOf(inv[c].files))
           /\ ~InSeq(inv[c].found[j].k, inv[c].imported)
           /\ ~Registered(c, inv[c].found[j].k)

\* A module whose import throws, whose exported value lacks path, methods or
\* handlers, or whose registration throws (no handler to register).
FailsToLoad(m) ==
    \/ m.load # "ok"
    \/ ~m.hasDefault \/ m.has # Fields \/ m.path = <<>>
    \/ m.handlers = <<>>

\* C5: once the directory was accessible and listed, the invocation is never
\* rejected: every file of the list is imported, a file that fails is
\* warned about and not registered, and the router is returned.
C5_NoFileAbortsTheLoad ==
    \A c \in Invs :
        inv[c].created
        => /\ inv[c].pc \in {"loading", "done"}
           /\ inv[c].pc = "done" => inv[c].imported = EntriesOf(inv[c].files)
           /\ \A j \in 1..Len(inv[c].imported) :
                  FailsToLoad(disk[inv[c].imported[j]].mod)
                  => ~Registered(c, inv[c].imported[j]) /\ Warned(c, inv[c].imported[j])

\* A descriptor with a field absent or empty: no default export, a missing
\* field, an empty path, an empty method list or an empty handler list.
AbsentOrEmpty(m) ==
    /\ m.load = "ok"
    /\ \/ ~m.hasDefault \/ m.has # Fields
       \/ m.path = <<>> \/ m.methods = <<>> \/ m.handlers = <<>>

\* The same without the empty method list.
AbsentOrFalsy(m) ==
    /\ m.load = "ok"
    /\ \/ ~m.hasDefault \/ m.has # Fields
       \/ m.path = <<>> \/ m.handlers = <<>>

\* A complete descriptor whose only defect is an empty method list.
OnlyMethodsEmpty(m) == AbsentOrEmpty(m) /\ ~AbsentOrFalsy(m)

Skipped(c, k) == ~Registered(c, k) /\ Warned(c, k) /\ ~AbortedAt(c, k)

\* C9 as stated: a descriptor with path, methods or handlers absent or empty
\* (an empty method list included) is skipped with a warning, and the load is
\* not rejected because of it.
C9_AbsentOrEmptySkipped ==
    \A c \in Invs : \A j \in 1..Len(inv[c].imported) :
        AbsentOrEmpty(disk[inv[c].imported[j]].mod) => Skipped(c, inv[c].imported[j])

\* C9 amended: a descriptor with path, methods or handlers absent, with an
\* empty path or with an empty handler list is skipped with a warning, and
\* the load is not rejected because of it; a descriptor whose method list is
\* empty and which is otherwise complete is registered, with no method.
C9_AbsentOrFalsySkipped ==
    \A c \in Invs : \A j \in 1..Len(inv[c].imported) :
        /\ AbsentOrFalsy(disk[inv[c].imported[j]].mod) => Skipped(c, inv[c].imported[j])
        /\ OnlyMethodsEmpty(disk[inv[c].imported[j]].mod)
           => /\ ~Warned(c, inv[c].imported[j])
              /\ \E n \in 1..Len(inv[c].stack) :
                    /\ inv[c].stack[n].src = inv[c].imported[j]
                    /\ inv[c].stack[n].methods = <<>>

C9_Witness ==
    \E c \in Invs : \E j, n \in 1..Len(inv[c].imported) :
        /\ inv[c].pc = "done"
        /\ disk[inv[c].imported[j]].mod.handlers = <<>>
        /\ "handlers" \in disk[inv[c].imported[j]].mod.has
        /\ Skipped(c, inv[c].imported[j])
        /\ OnlyMethodsEmpty(disk[inv[c].imported[n]].mod)
        /\ Registered(c, inv[c].imported[n])

\* The path of entry k in the file list of invocation c.
FileOf(c, k) == (CHOOSE f \in {inv[c].files[j] : j \in 1..Len(inv[c].files)} : f.k = k).file

\* C1: every path an invocation registers is the one a lone invocation with
\* the same directory and options registers for that file, whatever another
\* invocation did before or in between.
C1_InvocationsIndependent ==
    \A c \in Invs : \A n \in 1..Len(inv[c].stack) :
        inv[c].stack[n].path =
            RewritePath(inv[c].prefix, inv[c].abs, FileOf(c, inv[c].stack[n].src),
                        disk[inv[c].stack[n].src].mod.path)

\* The directory of entry k below the resolved root of invocation c.
RelDir(c, k) ==
    JoinSegs(Drop(CwdSegs \o disk[k].dir, Len(ResolvedSegs(platform, inv[c].abs))),
             Sep(platform))

\* The join of the given parts with forward slashes and a leading "/".
JoinedRoute(parts) == LeadingSlash(ReplaceAll(PathJoin(platform, parts), BSLASH, SLASH))

\* C10: the registered path is the join of the prefix, the file's directory
\* relative to the root, and the declared path, with forward slashes and a
\* leading "/"; for a file directly in the root, the join of the prefix and
\* the declared path.
C10_PathIsPrefixDirDeclared ==
    \A c \in Invs : \A n \in 1..Len(inv[c].stack) :
        /\ inv[c].stack[n].path =
               JoinedRoute(<<inv[c].prefix, RelDir(c, inv[c].stack[n].src),
                             disk[inv[c].stack[n].src].mod.path>>)
        /\ RelDir(c, inv[c].stack[n].src) = <<>>
           => inv[c].stack[n].path =
                  JoinedRoute(<<inv[c].prefix, disk[inv[c].stack[n].src].mod.path>>)

\* C8: only regular files with an extension of fileExtensions are imported
\* and registered; and of two invocations on the same directory with the
\* same ignore patterns, the one whose extensions are a subset has no more
\* eligible files and no more registered entries.
C8_ExtensionSubsetMonotone ==
    \A c \in Invs :
        /\ \A j \in 1..Len(inv[c].imported) :
               /\ disk[inv[c].imported[j]].isFile
               /\ Extname(disk[inv[c].imported[j]].name) \in inv[c].exts
        /\ \A d \in Invs :
               (/\ inv[c].pc = "done" /\ inv[d].pc = "done"
                /\ inv[c].abs = inv[d].abs /\ inv[c].pats = inv[d].pats
                /\ inv[c].exts \subseteq inv[d].exts)
               => /\ Len(inv[c].files) <= Len(inv[d].files)
                  /\ Len(inv[c].stack) <= Len(inv[d].stack)

\* C6: with the prefix "/api", every registered path starts with "/api/".
C6_ApiPrefixOnEveryPath ==
    \A c \in Invs : \A n \in 1..Len(inv[c].stack) :
        inv[c].prefix = Api
        => /\ Len(inv[c].stack[n].path) > Len(Api)
           /\ SubSeq(inv[c].stack[n].path, 1, Len(Api) + 1) = Api \o <<SLASH>>

\* C7: every registered path begins with exactly one "/" and holds no
\* backslash, for every prefix, directory position and declared path, on
\* either platform.
C7_SingleLeadingSlash ==
    \A c \in Invs : \A n \in 1..Len(inv[c].stack) :
        /\ StartsWith(inv[c].stack[n].path, SLASH)
        /\ Len(inv[c].stack[n].path) > 1 => inv[c].stack[n].path[2] # SLASH
        /\ \A i \in 1..Len(inv[c].stack[n].path) : inv[c].stack[n].path[i] # BSLASH

====
